---- MODULE Spec2Model ----
(***************************************************************************)
(* Model of BusyIndicatorManager (src/src/BusyIndicatorManager.ts): a      *)
(* registry of named busy flags kept in a plain JavaScript object, with    *)
(* the operations init, add, remove, set and get.                          *)
(*                                                                         *)
(* JavaScript values are modelled as tagged strings; the registry object   *)
(* `this.states` is modelled by its own properties (a function from keys   *)
(* to values) together with its prototype, because the code tests          *)
(* membership with the `in` operator and reads with `obj[key]`, both of    *)
(* which walk the prototype chain.                                         *)
(***************************************************************************)
EXTENDS Naturals, Sequences, FiniteSets, TLC

(***************************************************************************)
(* Bounds of the model.                                                    *)
(***************************************************************************)
MaxPlainKeys == 1

(***************************************************************************)
(* JavaScript values.                                                      *)
(***************************************************************************)
JsTrue == "B:true"
JsFalse == "B:false"
JsNull == "null"
JsUndefined == "undefined"
JsStr == "S:initial"
JsZero == "N:0"
JsEmptyStr == "S:"
JsFnToString == "F:Object.prototype.toString"
JsObjectPrototype == "O:Object.prototype"

\* The values a caller passes as arguments; JsUndefined is an omitted argument.
ArgValues == {JsTrue, JsFalse, JsNull, JsUndefined, JsStr}

\* The prototype of the object held in this.states.
ObjectPrototype == "Object.prototype"
NullPrototype == "null"

\* Property names every object with prototype Object.prototype inherits
\* (two representatives: a data property holding a function and the
\* __proto__ accessor).
ObjectPrototypeNames == {"toString", "__proto__"}

PlainKeyNames == <<"task1", "task2", "task3", "task4">>
PlainKeys == {PlainKeyNames[i] : i \in 1..MaxPlainKeys}
Keys == PlainKeys \cup ObjectPrototypeNames

EmptyObject == [k \in {} |-> JsFalse]

(***************************************************************************)
(* JavaScript operators used by the code.                                  *)
(***************************************************************************)
\* Truthiness, as tested by `a && b` and `a || b`.
Truthy(v) == v \notin {JsFalse, JsNull, JsUndefined, JsZero, JsEmptyStr}

\* `a || b`
OrElse(a, b) == IF Truthy(a) THEN a ELSE b

\* `a ?? b`
NullishCoalesce(a, b) == IF a \in {JsNull, JsUndefined} THEN b ELSE a

\* A default parameter `p = d`: the default applies when the argument is
\* omitted or undefined.
DefaultParam(arg, d) == IF arg = JsUndefined THEN d ELSE arg

\* String(v) and `${v}`.
JsString(v) ==
  CASE v = JsTrue -> "true"
    [] v = JsFalse -> "false"
    [] v = JsNull -> "null"
    [] v = JsUndefined -> "undefined"
    [] v = JsStr -> "initial"
    [] v = JsZero -> "0"
    [] v = JsEmptyStr -> ""
    [] v = JsFnToString -> "function toString() { [native code] }"
    [] v = JsObjectPrototype -> "[object Object]"

\* A presence test by truthiness, `obj[key]` in place of `key in obj`.
HasProperty_ByTruthiness(obj, pr, key) ==
  \/ key \in DOMAIN obj /\ Truthy(obj[key])
  \/ key \notin DOMAIN obj /\ pr = ObjectPrototype /\ key \in ObjectPrototypeNames

\* `key in obj`: own or inherited property.
HasProperty(obj, pr, key) ==
  \/ key \in DOMAIN obj
  \/ pr = ObjectPrototype /\ key \in ObjectPrototypeNames

\* `obj[key]` as an expression.
GetProperty(obj, pr, key) ==
  IF key \in DOMAIN obj THEN obj[key]
  ELSE IF pr = ObjectPrototype /\ key = "toString" THEN JsFnToString
  ELSE IF pr = ObjectPrototype /\ key = "__proto__" THEN JsObjectPrototype
  ELSE JsUndefined

\* `obj[key] = v`: the object after the assignment.  An own property is
\* updated; the inherited __proto__ setter changes the prototype when v is
\* null (or an object) and ignores any other value; otherwise an own property
\* is created.
PutProperty(obj, pr, key, v) ==
  IF key \notin DOMAIN obj /\ pr = ObjectPrototype /\ key = "__proto__"
  THEN [obj |-> obj, proto |-> IF v = JsNull THEN NullPrototype ELSE pr]
  ELSE [obj |-> [k \in DOMAIN obj \cup {key} |-> IF k = key THEN v ELSE obj[k]],
        proto |-> pr]

\* `delete obj[key]`: removes an own property.
DeleteProperty(obj, key) == [k \in DOMAIN obj \ {key} |-> obj[k]]

(***************************************************************************)
(* Diagnostics: console.warn messages and Error messages.                  *)
(***************************************************************************)
NoError == <<>>
NoReturn == "void"

AlreadyRegisteredMessage(key, v) ==
  <<"Key", key, "is already registered and has value", JsString(v)>>
NotRegisteredUseAddMessage(key) ==
  <<"Key", key, "is not registered. Use add to register it first.">>
NotRegisteredMessage(key) ==
  <<"Key", key, "is not registered.">>
RegisteredWithFallbackMessage(key, v) ==
  <<"Key", key, "is not registered. Registered with fallback value:", JsString(v)>>

(***************************************************************************)
(* State.                                                                  *)
(***************************************************************************)
VARIABLES
  states,       \* own properties of the object this.states
  proto,        \* prototype of the object this.states
  strict,       \* this.strict
  createOnGet,  \* this.createOnGet
  last,         \* the most recent call: its arguments and its outcome
  held,         \* own properties of the mapping object m the caller keeps
  aliased,      \* this.states is the caller's object m (init stores it)
  enforceRegistration  \* this.enforceRegistration of the earlier variant

vars == <<states, proto, strict, createOnGet, last, held, aliased,
          enforceRegistration>>

This == [states |-> states, proto |-> proto, strict |-> strict,
         createOnGet |-> createOnGet]

\* Outcomes of a call: the manager's fields after it, the value returned,
\* the error thrown and the warnings written to the console.
Return(this, ret, warns) ==
  [states |-> this.states, proto |-> this.proto, strict |-> this.strict,
   createOnGet |-> this.createOnGet, ret |-> ret, err |-> NoError,
   warns |-> warns]

Throw(this, msg, warns) ==
  [states |-> this.states, proto |-> this.proto, strict |-> this.strict,
   createOnGet |-> this.createOnGet, ret |-> NoReturn, err |-> msg,
   warns |-> warns]

(***************************************************************************)
(* Options of init.                                                        *)
(***************************************************************************)
OptionFlags == {JsUndefined, JsTrue, JsFalse}

\* Object literals a caller passes as initialStates.
InitialMaps ==
  { EmptyObject,
    [k \in PlainKeys |-> JsStr],
    [k \in {"task1"} |-> JsNull],
    [k \in {"toString"} |-> JsTrue],
    [k \in PlainKeys \cup {"toString"} |-> IF k = "toString" THEN JsStr ELSE JsFalse] }

NoOptions ==
  [present |-> FALSE, strict |-> JsUndefined, createOnGet |-> JsUndefined,
   hasInitialStates |-> FALSE, initialStates |-> EmptyObject]

Options ==
  {NoOptions}
  \cup [present : {TRUE}, strict : OptionFlags, createOnGet : OptionFlags,
        hasInitialStates : {FALSE}, initialStates : {EmptyObject}]
  \cup [present : {TRUE}, strict : OptionFlags, createOnGet : OptionFlags,
        hasInitialStates : {TRUE}, initialStates : InitialMaps]

(***************************************************************************)
(* The methods, as functions from the manager and the arguments to the     *)
(* outcome.                                                                *)
(***************************************************************************)
\* init as an incremental merge: prior entries survive the call.
init_MergesPriorEntries(this, options) ==
  LET given == IF options.present /\ options.hasInitialStates
               THEN options.initialStates ELSE EmptyObject
      optStrict == IF options.present THEN options.strict ELSE JsUndefined
      optCreate == IF options.present THEN options.createOnGet ELSE JsUndefined
  IN [states |-> [k \in DOMAIN this.states \cup DOMAIN given |->
                    IF k \in DOMAIN given THEN given[k] ELSE this.states[k]],
      proto |-> ObjectPrototype,
      strict |-> OrElse(optStrict, JsFalse),
      createOnGet |-> NullishCoalesce(optCreate, JsTrue),
      ret |-> NoReturn, err |-> NoError, warns |-> <<>>]

init(this, options) ==
  LET newStates == IF options.present /\ options.hasInitialStates
                   THEN options.initialStates ELSE EmptyObject
      optStrict == IF options.present THEN options.strict ELSE JsUndefined
      optCreate == IF options.present THEN options.createOnGet ELSE JsUndefined
  IN [states |-> newStates, proto |-> ObjectPrototype,
      strict |-> OrElse(optStrict, JsFalse),
      createOnGet |-> NullishCoalesce(optCreate, JsTrue),
      ret |-> NoReturn, err |-> NoError, warns |-> <<>>]

\* add without the presence test: an existing entry is overwritten.
add_OverwritesExisting(this, key, initialStateArg) ==
  LET initialState == DefaultParam(initialStateArg, JsFalse)
      o == PutProperty(this.states, this.proto, key, initialState)
  IN Return([this EXCEPT !.states = o.obj, !.proto = o.proto], NoReturn, <<>>)

add(this, key, initialStateArg) ==
  LET initialState == DefaultParam(initialStateArg, JsFalse) IN
  IF ~HasProperty(this.states, this.proto, key)
  THEN LET o == PutProperty(this.states, this.proto, key, initialState)
       IN Return([this EXCEPT !.states = o.obj, !.proto = o.proto],
                 NoReturn, <<>>)
  ELSE Return(this, NoReturn,
              <<AlreadyRegisteredMessage(key,
                  GetProperty(this.states, this.proto, key))>>)

\* remove that throws without writing the warning first.
remove_ThrowsWithoutWarning(this, key) ==
  IF Truthy(this.strict) /\ ~HasProperty(this.states, this.proto, key)
  THEN Throw(this, NotRegisteredUseAddMessage(key), <<>>)
  ELSE IF HasProperty(this.states, this.proto, key)
  THEN Return([this EXCEPT !.states = DeleteProperty(this.states, key)],
              NoReturn, <<>>)
  ELSE Return(this, NoReturn, <<>>)

remove(this, key) ==
  IF Truthy(this.strict) /\ ~HasProperty(this.states, this.proto, key)
  THEN Throw(this, NotRegisteredUseAddMessage(key),
             <<NotRegisteredUseAddMessage(key)>>)
  ELSE IF HasProperty(this.states, this.proto, key)
  THEN Return([this EXCEPT !.states = DeleteProperty(this.states, key)],
              NoReturn, <<>>)
  ELSE Return(this, NoReturn, <<>>)

\* set that assigns the value to this.strict instead of this.states[key].
set_AssignsStrict(this, key, valueArg) ==
  LET value == DefaultParam(valueArg, JsTrue) IN
  IF Truthy(this.strict) /\ ~HasProperty(this.states, this.proto, key)
  THEN Throw(this, NotRegisteredUseAddMessage(key),
             <<NotRegisteredUseAddMessage(key)>>)
  ELSE Return([this EXCEPT !.strict = value], NoReturn, <<>>)

set(this, key, valueArg) ==
  LET value == DefaultParam(valueArg, JsTrue) IN
  IF Truthy(this.strict) /\ ~HasProperty(this.states, this.proto, key)
  THEN Throw(this, NotRegisteredUseAddMessage(key),
             <<NotRegisteredUseAddMessage(key)>>)
  ELSE LET o == PutProperty(this.states, this.proto, key, value)
       IN Return([this EXCEPT !.states = o.obj, !.proto = o.proto],
                 NoReturn, <<>>)

get(this, key, fallbackArg) ==
  LET fallbackValue == DefaultParam(fallbackArg, JsFalse) IN
  IF Truthy(this.strict) /\ ~HasProperty(this.states, this.proto, key)
  THEN IF Truthy(this.createOnGet)
       THEN LET added == add(this, key, fallbackValue)
            IN [added EXCEPT
                  !.ret = fallbackValue,
                  !.warns = Append(added.warns,
                              RegisteredWithFallbackMessage(key, fallbackValue))]
       ELSE Throw(this, NotRegisteredMessage(key),
                  <<NotRegisteredMessage(key)>>)
  ELSE Return(this,
              NullishCoalesce(GetProperty(this.states, this.proto, key), JsFalse),
              <<>>)

(***************************************************************************)
(* The state machine: one action per method call.                          *)
(***************************************************************************)
\* The manager's fields become those of the outcome `out`.
Becomes(out) ==
  /\ states' = out.states
  /\ proto' = out.proto
  /\ strict' = out.strict
  /\ createOnGet' = out.createOnGet

\* The caller's mapping object m after a call with outcome `out`: while
\* this.states is that very object, every write of the call lands in it.
CallerObject(out) ==
  /\ held' = (IF aliased THEN out.states ELSE held)
  /\ aliased' = aliased

\* The mapping m the caller builds once and keeps: { task1: "initial", ... }.
CallerMap == [k \in PlainKeys |-> JsStr]

\* The record kept of a call and of its outcome.
CallRecord(op, key, arg, options, out) ==
  [op |-> op, key |-> key, arg |-> arg, options |-> options,
   ret |-> out.ret, err |-> out.err, warns |-> out.warns]

\* new BusyIndicatorManager()
Init ==
  /\ states = EmptyObject
  /\ proto = ObjectPrototype
  /\ strict = JsFalse
  /\ createOnGet = JsTrue
  /\ last = [op |-> "constructor", key |-> "", arg |-> JsUndefined,
             options |-> NoOptions, ret |-> NoReturn, err |-> NoError,
             warns |-> <<>>]
  /\ held = CallerMap
  /\ aliased = FALSE
  /\ enforceRegistration = JsFalse

\* init called with an object literal (or with nothing).
CallInit(options) ==
  /\ Becomes(init(This, options))
  /\ last' = CallRecord("init", "", JsUndefined, options, init(This, options))
  /\ aliased' = FALSE
  /\ UNCHANGED <<held, enforceRegistration>>

CallAdd(key, initialState) ==
  /\ Becomes(add(This, key, initialState))
  /\ last' = CallRecord("add", key, initialState, NoOptions,
                        add(This, key, initialState))
  /\ CallerObject(add(This, key, initialState))
  /\ UNCHANGED enforceRegistration

CallRemove(key) ==
  /\ Becomes(remove(This, key))
  /\ last' = CallRecord("remove", key, JsUndefined, NoOptions, remove(This, key))
  /\ CallerObject(remove(This, key))
  /\ UNCHANGED enforceRegistration

CallSet(key, value) ==
  /\ Becomes(set(This, key, value))
  /\ last' = CallRecord("set", key, value, NoOptions, set(This, key, value))
  /\ CallerObject(set(This, key, value))
  /\ UNCHANGED enforceRegistration

CallGet(key, fallbackValue) ==
  /\ Becomes(get(This, key, fallbackValue))
  /\ last' = CallRecord("get", key, fallbackValue, NoOptions,
                        get(This, key, fallbackValue))
  /\ CallerObject(get(This, key, fallbackValue))
  /\ UNCHANGED enforceRegistration

Next ==
  \/ \E options \in Options : CallInit(options)
  \/ \E key \in Keys, v \in ArgValues : CallAdd(key, v)
  \/ \E key \in Keys : CallRemove(key)
  \/ \E key \in Keys, v \in ArgValues : CallSet(key, v)
  \/ \E key \in Keys, v \in ArgValues : CallGet(key, v)

Spec == Init /\ [][Next]_vars

(***************************************************************************)
(* The same manager called with falsy values of every kind (false, 0, the  *)
(* empty string, null), on the plain keys and one inherited name.          *)
(***************************************************************************)
FalsyArgValues == {JsTrue, JsFalse, JsZero, JsEmptyStr, JsNull}
FalsyKeys == PlainKeys \cup {"toString"}

NextFalsy ==
  \/ \E options \in Options : CallInit(options)
  \/ \E key \in FalsyKeys, v \in FalsyArgValues : CallAdd(key, v)
  \/ \E key \in FalsyKeys : CallRemove(key)
  \/ \E key \in FalsyKeys, v \in FalsyArgValues : CallSet(key, v)
  \/ \E key \in FalsyKeys, v \in FalsyArgValues : CallGet(key, v)

SpecFalsy == Init /\ [][NextFalsy]_vars

(***************************************************************************)
(* The same manager configured repeatedly with one mapping object m that   *)
(* the caller keeps: init stores the reference (`this.states =             *)
(* options.initialStates`), it does not copy.  No call here assigns        *)
(* __proto__, so the prototype of m stays Object.prototype.                *)
(***************************************************************************)
\* init({initialStates: m, strict, createOnGet}) with the caller's object m.
HeldOptions(optStrict, optCreate) ==
  [present |-> TRUE, strict |-> optStrict, createOnGet |-> optCreate,
   hasInitialStates |-> TRUE, initialStates |-> held]

CallInitHeld(optStrict, optCreate) ==
  /\ Becomes(init(This, HeldOptions(optStrict, optCreate)))
  /\ last' = CallRecord("init", "", JsUndefined,
                        HeldOptions(optStrict, optCreate),
                        init(This, HeldOptions(optStrict, optCreate)))
  /\ aliased' = TRUE
  /\ UNCHANGED <<held, enforceRegistration>>

AliasKeys == PlainKeys \cup {"toString"}

NextAlias ==
  \/ \E optStrict \in OptionFlags, optCreate \in OptionFlags :
       CallInitHeld(optStrict, optCreate)
  \/ CallInit(NoOptions)
  \/ \E key \in AliasKeys, v \in ArgValues : CallAdd(key, v)
  \/ \E key \in AliasKeys : CallRemove(key)
  \/ \E key \in AliasKeys, v \in ArgValues : CallSet(key, v)
  \/ \E key \in AliasKeys, v \in ArgValues : CallGet(key, v)

SpecAlias == Init /\ [][NextAlias]_vars

(***************************************************************************)
(* The earlier variant of the manager (src/unnamed/part_002): one switch,  *)
(* enforceRegistration; set and get warn instead of throwing, add does not *)
(* warn, remove deletes unconditionally and get takes no fallback.         *)
(***************************************************************************)
NotRegisteredUseRegisterMessage(key) ==
  <<"Key", key, "is not registered. Use register to register it first.">>

ThisER == [states |-> states, proto |-> proto,
           enforceRegistration |-> enforceRegistration]

ReturnER(this, ret, warns) ==
  [states |-> this.states, proto |-> this.proto,
   enforceRegistration |-> this.enforceRegistration,
   ret |-> ret, err |-> NoError, warns |-> warns]

NoOptionsER ==
  [present |-> FALSE, enforceRegistration |-> JsUndefined,
   hasInitialStates |-> FALSE, initialStates |-> EmptyObject]

OptionsER ==
  {NoOptionsER}
  \cup [present : {TRUE}, enforceRegistration : OptionFlags,
        hasInitialStates : {FALSE}, initialStates : {EmptyObject}]
  \cup [present : {TRUE}, enforceRegistration : OptionFlags,
        hasInitialStates : {TRUE}, initialStates : InitialMaps]

initER(this, options) ==
  LET newStates == IF options.present /\ options.hasInitialStates
                   THEN options.initialStates ELSE EmptyObject
      optEnforce == IF options.present THEN options.enforceRegistration
                    ELSE JsUndefined
  IN [states |-> newStates, proto |-> ObjectPrototype,
      enforceRegistration |-> OrElse(optEnforce, JsFalse),
      ret |-> NoReturn, err |-> NoError, warns |-> <<>>]

addER(this, key, initialStateArg) ==
  LET initialState == DefaultParam(initialStateArg, JsFalse) IN
  IF ~HasProperty(this.states, this.proto, key)
  THEN LET o == PutProperty(this.states, this.proto, key, initialState)
       IN ReturnER([this EXCEPT !.states = o.obj, !.proto = o.proto],
                   NoReturn, <<>>)
  ELSE ReturnER(this, NoReturn, <<>>)

removeER(this, key) ==
  ReturnER([this EXCEPT !.states = DeleteProperty(this.states, key)],
           NoReturn, <<>>)

setER(this, key, valueArg) ==
  LET value == DefaultParam(valueArg, JsTrue) IN
  IF Truthy(this.enforceRegistration)
       /\ ~HasProperty(this.states, this.proto, key)
  THEN ReturnER(this, NoReturn, <<NotRegisteredUseRegisterMessage(key)>>)
  ELSE LET o == PutProperty(this.states, this.proto, key, value)
       IN ReturnER([this EXCEPT !.states = o.obj, !.proto = o.proto],
                   NoReturn, <<>>)

getER(this, key) ==
  IF Truthy(this.enforceRegistration)
       /\ ~HasProperty(this.states, this.proto, key)
  THEN ReturnER(this, JsFalse, <<NotRegisteredMessage(key)>>)
  ELSE ReturnER(this,
                NullishCoalesce(GetProperty(this.states, this.proto, key),
                                JsFalse),
                <<>>)

\* The variant's fields become those of the outcome `out`.
BecomesER(out) ==
  /\ states' = out.states
  /\ proto' = out.proto
  /\ enforceRegistration' = out.enforceRegistration
  /\ UNCHANGED <<strict, createOnGet, held, aliased>>

CallInitER(options) ==
  /\ BecomesER(initER(ThisER, options))
  /\ last' = CallRecord("init", "", JsUndefined, options,
                        initER(ThisER, options))

CallAddER(key, initialState) ==
  /\ BecomesER(addER(ThisER, key, initialState))
  /\ last' = CallRecord("add", key, initialState, NoOptionsER,
                        addER(ThisER, key, initialState))

CallRemoveER(key) ==
  /\ BecomesER(removeER(ThisER, key))
  /\ last' = CallRecord("remove", key, JsUndefined, NoOptionsER,
                        removeER(ThisER, key))

CallSetER(key, value) ==
  /\ BecomesER(setER(ThisER, key, value))
  /\ last' = CallRecord("set", key, value, NoOptionsER,
                        setER(ThisER, key, value))

CallGetER(key) ==
  /\ BecomesER(getER(ThisER, key))
  /\ last' = CallRecord("get", key, JsUndefined, NoOptionsER,
                        getER(ThisER, key))

NextER ==
  \/ \E options \in OptionsER : CallInitER(options)
  \/ \E key \in Keys, v \in ArgValues : CallAddER(key, v)
  \/ \E key \in Keys : CallRemoveER(key)
  \/ \E key \in Keys, v \in ArgValues : CallSetER(key, v)
  \/ \E key \in Keys : CallGetER(key)

SpecER == Init /\ [][NextER]_vars

(***************************************************************************)
(* Vocabulary of the properties.                                           *)
(***************************************************************************)
\* The registry's entries are the own properties of this.states.
Registered(obj, key) == key \in DOMAIN obj

StrictMode == Truthy(strict)
CreateOnGetMode == Truthy(createOnGet)

\* What get(key), called with no fallback, returns in the state `this`.
NextGet(this, key) == get(this, key, JsUndefined).ret

\* Every entry other than `key` is the same in `before` and `after`.
OthersUnchanged(before, after, key) ==
  \A k \in (DOMAIN before \cup DOMAIN after) \ {key} :
    /\ k \in DOMAIN before
    /\ k \in DOMAIN after
    /\ before[k] = after[k]

(***************************************************************************)
(* C1: in non-strict mode, after set(k, v) the next get(k) returns v,      *)
(* or false when v is null or undefined, for every key k, registered       *)
(* before the set or not.                                                  *)
(***************************************************************************)
C1_SetThenGetReturnsValue ==
  (last.op = "set" /\ ~StrictMode)
    => NextGet(This, last.key) =
         (IF last.arg \in {JsNull, JsUndefined} THEN JsFalse ELSE last.arg)

(***************************************************************************)
(* C2: in non-strict mode, get on a key that is not in entries returns     *)
(* false, with or without a fallback, and leaves entries unchanged.        *)
(***************************************************************************)
C2_GetUnregisteredNonStrict ==
  [][ (last'.op = "get" /\ ~StrictMode /\ ~Registered(states, last'.key))
        => /\ last'.ret = JsFalse
           /\ last'.err = NoError
           /\ states' = states ]_vars

(***************************************************************************)
(* C3: in strict mode, set or remove on a key that is not in entries       *)
(* raises the not-registered error and leaves entries unchanged.           *)
(***************************************************************************)
C3_StrictSetRemoveUnregisteredRaises ==
  [][ (last'.op \in {"set", "remove"} /\ StrictMode
         /\ ~Registered(states, last'.key))
        => /\ last'.err = NotRegisteredUseAddMessage(last'.key)
           /\ states' = states ]_vars

(***************************************************************************)
(* C4: with strict and createOnGet enabled, get(k, fb) on a key that is    *)
(* not in entries registers k with fb and returns fb, and the next get(k)  *)
(* without a fallback returns fb again.                                    *)
(***************************************************************************)
C4_StrictCreateOnGetRegistersFallback ==
  [][ (last'.op = "get" /\ StrictMode /\ CreateOnGetMode
         /\ ~Registered(states, last'.key))
        => LET fb == DefaultParam(last'.arg, JsFalse) IN
           /\ Registered(states', last'.key)
           /\ states'[last'.key] = fb
           /\ last'.ret = fb
           /\ NextGet(This', last'.key) = fb ]_vars

(***************************************************************************)
(* C5: with strict enabled and createOnGet disabled, get on a key that is  *)
(* not in entries raises the not-registered error, returns no value and    *)
(* does not register the key.                                              *)
(***************************************************************************)
C5_StrictGetUnregisteredRaises ==
  [][ (last'.op = "get" /\ StrictMode /\ ~CreateOnGetMode
         /\ ~Registered(states, last'.key))
        => /\ last'.err = NotRegisteredMessage(last'.key)
           /\ last'.ret = NoReturn
           /\ states' = states ]_vars

(***************************************************************************)
(* C6: add on a key that is already in entries changes nothing in any      *)
(* mode: the entry keeps its value, no other entry changes, the duplicate  *)
(* warning (naming the current value) is emitted and no error is raised.   *)
(***************************************************************************)
C6_AddRegisteredIsNoOp ==
  [][ (last'.op = "add" /\ Registered(states, last'.key))
        => /\ states' = states
           /\ proto' = proto
           /\ last'.err = NoError
           /\ last'.warns =
                <<AlreadyRegisteredMessage(last'.key, states[last'.key])>> ]_vars

\* add(k, y) has just warned about k, whose entry holds a value other than y.
C6_Witness ==
  /\ last.op = "add"
  /\ Registered(states, last.key)
  /\ last.warns # <<>>
  /\ last.err = NoError
  /\ states[last.key] # DefaultParam(last.arg, JsFalse)

(***************************************************************************)
(* C7: add never raises, in any mode; and for a key k that is not in       *)
(* entries, after add(k, x) get(k) returns x, and in strict mode a         *)
(* set(k, v) then succeeds and the next get(k) returns v.                  *)
(***************************************************************************)
C7_AddRegistersForLaterOperations ==
  [][ last'.op = "add"
        => /\ last'.err = NoError
           /\ ~Registered(states, last'.key)
                => LET x == DefaultParam(last'.arg, JsFalse) IN
                   /\ NextGet(This', last'.key) = x
                   /\ Truthy(strict')
                        => \A v \in ArgValues \ {JsUndefined} :
                             LET after == set(This', last'.key, v) IN
                             /\ after.err = NoError
                             /\ NextGet(after, last'.key) = v ]_vars

(***************************************************************************)
(* C8: init is a full reset that always succeeds: afterwards entries are   *)
(* exactly options.initialStates (empty when not given), strict is         *)
(* options.strict (false when not given) and createOnGet is                *)
(* options.createOnGet (true when not given), whatever held before.        *)
(***************************************************************************)
C8_InitIsFullReset ==
  last.op = "init"
    => LET o == last.options IN
       /\ last.err = NoError
       /\ states = (IF o.present /\ o.hasInitialStates
                    THEN o.initialStates ELSE EmptyObject)
       /\ strict = (IF o.present /\ o.strict = JsTrue THEN JsTrue ELSE JsFalse)
       /\ createOnGet = (IF o.present /\ o.createOnGet = JsFalse
                         THEN JsFalse ELSE JsTrue)

\* init has just run with an initial mapping and both modes given.
C8_Witness ==
  /\ last.op = "init"
  /\ last.options.present
  /\ last.options.hasInitialStates
  /\ last.options.strict = JsTrue
  /\ last.options.createOnGet = JsFalse
  /\ DOMAIN states = {"task1"}

(***************************************************************************)
(* C9: in non-strict mode remove raises nothing and undoes registration:   *)
(* afterwards the key is absent and get returns false for it, a second     *)
(* remove changes nothing and raises nothing, and no other entry changes.  *)
(***************************************************************************)
C9_NonStrictRemove ==
  [][ (last'.op = "remove" /\ ~StrictMode)
        => /\ last'.err = NoError
           /\ ~Registered(states', last'.key)
           /\ NextGet(This', last'.key) = JsFalse
           /\ OthersUnchanged(states, states', last'.key)
           /\ LET again == remove(This', last'.key) IN
              /\ again.err = NoError
              /\ again.states = states' ]_vars

(***************************************************************************)
(* C10: set(k) without a value stores true for k, and add(k) without an    *)
(* initial value on a key that is not in entries stores false for k, so    *)
(* that the next get(k) returns true and false respectively.               *)
(***************************************************************************)
C10_DefaultArguments ==
  [][ /\ (last'.op = "set" /\ last'.arg = JsUndefined /\ last'.err = NoError)
           => /\ Registered(states', last'.key)
              /\ states'[last'.key] = JsTrue
              /\ NextGet(This', last'.key) = JsTrue
      /\ (last'.op = "add" /\ last'.arg = JsUndefined
            /\ ~Registered(states, last'.key))
           => /\ Registered(states', last'.key)
              /\ states'[last'.key] = JsFalse
              /\ NextGet(This', last'.key) = JsFalse ]_vars

(***************************************************************************)
(* C11: in non-strict mode no operation raises: add, remove, set and get   *)
(* complete without an error for every key, a read of a key that is not in *)
(* entries yields false and a write to such a key registers it.            *)
(***************************************************************************)
C11_NonStrictNeverRaises ==
  [][ (last'.op \in {"add", "remove", "set", "get"} /\ ~StrictMode)
        => /\ last'.err = NoError
           /\ (last'.op = "get" /\ ~Registered(states, last'.key))
                => last'.ret = JsFalse
           /\ (last'.op \in {"add", "set"} /\ ~Registered(states, last'.key))
                => Registered(states', last'.key) ]_vars

(***************************************************************************)
(* C12: get never returns a null or undefined value: in every mode, every  *)
(* get that returns at all returns a non-nullish value or false.           *)
(***************************************************************************)
C12_GetNeverReturnsNullish ==
  (last.op = "get" /\ last.err = NoError)
    => last.ret \notin {JsNull, JsUndefined}

(***************************************************************************)
(* C14: the presence test of add, remove, set and get treats a key as      *)
(* registered only if it is in entries, for every string key, names        *)
(* inherited by every object included: add on a key that is not in entries *)
(* registers it, strict set and remove on it raise, and non-strict get on  *)
(* it returns false.                                                       *)
(***************************************************************************)
C14_PresenceTestIsEntryMembership ==
  [][ last'.op \in {"add", "remove", "set", "get"}
        => /\ HasProperty(states, proto, last'.key)
                <=> Registered(states, last'.key)
           /\ (last'.op = "add" /\ ~Registered(states, last'.key))
                => Registered(states', last'.key)
           /\ (last'.op \in {"set", "remove"} /\ StrictMode
                 /\ ~Registered(states, last'.key))
                => last'.err # NoError
           /\ (last'.op = "get" /\ ~StrictMode
                 /\ ~Registered(states, last'.key))
                => last'.ret = JsFalse ]_vars

(***************************************************************************)
(* C15: every error raised is a not-registered error of remove, set or     *)
(* get, and the call that raises it has written exactly one warning, with  *)
(* the message of the error, before raising.                               *)
(***************************************************************************)
C15_RaisePairedWithWarning ==
  last.err # NoError
    => /\ last.op \in {"remove", "set", "get"}
       /\ last.err \in {NotRegisteredUseAddMessage(last.key),
                        NotRegisteredMessage(last.key)}
       /\ last.warns = <<last.err>>

\* remove has just raised on an unregistered key in strict mode.
C15_Witness ==
  /\ last.op = "remove"
  /\ last.err = NotRegisteredUseAddMessage(last.key)
  /\ StrictMode
  /\ ~Registered(states, last.key)

(***************************************************************************)
(* C16: between two init calls a key enters entries only through add, set  *)
(* in non-strict mode, or get in strict mode with createOnGet enabled,     *)
(* called on that key; it leaves entries only through remove called on     *)
(* that key; no call adds or deletes an entry of another key.              *)
(***************************************************************************)
C16_EntryLifecycle ==
  [][ last'.op \in {"add", "remove", "set", "get"}
        => \A k \in Keys :
             /\ (~Registered(states, k) /\ Registered(states', k))
                  => /\ k = last'.key
                     /\ \/ last'.op = "add"
                        \/ last'.op = "set" /\ ~StrictMode
                        \/ last'.op = "get" /\ StrictMode /\ CreateOnGetMode
             /\ (Registered(states, k) /\ ~Registered(states', k))
                  => /\ k = last'.key
                     /\ last'.op = "remove" ]_vars

(***************************************************************************)
(* C17: strict and createOnGet change only through init: every add,        *)
(* remove, set and get, whatever its outcome, leaves both as they were.    *)
(***************************************************************************)
C17_ModesChangeOnlyThroughInit ==
  [][ last'.op # "init" => (strict' = strict /\ createOnGet' = createOnGet) ]_vars

\* A call other than init has just raised while the modes differ from the
\* constructor's.
C17_Witness ==
  /\ last.op = "set"
  /\ last.err # NoError
  /\ strict = JsTrue
  /\ createOnGet = JsFalse

(***************************************************************************)
(* C19: a key auto-registered by get in strict mode with createOnGet       *)
(* enabled is registered like an added key: after get(k, fb) on a key that *)
(* is not in entries, set(k, v) and remove(k) raise nothing, get(k, fb2)   *)
(* returns the stored value with no warning, and after remove(k) the next  *)
(* get(k, fb2) registers k again, with fb2.                                *)
(***************************************************************************)
C19_AutoRegisteredLikeAdded ==
  [][ (last'.op = "get" /\ StrictMode /\ CreateOnGetMode
         /\ ~Registered(states, last'.key))
        => LET k == last'.key
               removed == remove(This', k)
           IN /\ Registered(states', k)
              /\ \A v \in ArgValues : set(This', k, v).err = NoError
              /\ removed.err = NoError
              /\ \A fb2 \in ArgValues :
                   /\ get(This', k, fb2).err = NoError
                   /\ get(This', k, fb2).warns = <<>>
                   /\ get(This', k, fb2).ret =
                        (IF states'[k] = JsNull THEN JsFalse ELSE states'[k])
                   /\ Registered(get(removed, k, fb2).states, k)
                   /\ get(removed, k, fb2).states[k] = DefaultParam(fb2, JsFalse)
                   /\ get(removed, k, fb2).ret = DefaultParam(fb2, JsFalse) ]_vars

(***************************************************************************)
(* C13: presence, not truthiness, decides registration: in strict mode a   *)
(* key that is in entries with a falsy value (false, 0, the empty string,  *)
(* null) is registered: set and remove on it raise nothing, get on it      *)
(* raises nothing, registers nothing and warns of nothing, and get(k, fb)  *)
(* returns the stored value (false for null), not fb, and leaves it.       *)
(***************************************************************************)
C13_PresenceNotTruthiness ==
  [][ (last'.op \in {"set", "remove", "get"} /\ StrictMode
         /\ Registered(states, last'.key) /\ ~Truthy(states[last'.key]))
        => /\ last'.err = NoError
           /\ last'.op = "get"
                => /\ last'.warns = <<>>
                   /\ states' = states
                   /\ last'.ret = (IF states[last'.key] = JsNull
                                   THEN JsFalse ELSE states[last'.key]) ]_vars

\* In strict mode get(k, true) has just returned the stored 0 of k.
C13_Witness ==
  /\ last.op = "get"
  /\ StrictMode
  /\ Registered(states, last.key)
  /\ states[last.key] = JsZero
  /\ last.arg = JsTrue
  /\ last.ret = JsZero
  /\ last.warns = <<>>

(***************************************************************************)
(* C18: repeated configuration resets the registry to the supplied         *)
(* mapping: the calls made after init({initialStates: m}) do not alter the *)
(* caller's mapping m, so every init with m yields entries equal to the    *)
(* original contents of m.                                                 *)
(***************************************************************************)
C18_InitWithSameMappingResets ==
  /\ held = CallerMap
  /\ (last.op = "init" /\ aliased) => states = CallerMap

(***************************************************************************)
(* C20: in the enforceRegistration variant, with enforceRegistration       *)
(* enabled, set on a key that is not in entries writes the not-registered  *)
(* warning, raises nothing and stores nothing, so that get on the key      *)
(* still returns false; and get on such a key writes its warning and       *)
(* returns false without registering the key.                              *)
(***************************************************************************)
C20_EnforceRegistrationWarnsOnly ==
  [][ (last'.op \in {"set", "get"} /\ Truthy(enforceRegistration)
         /\ ~Registered(states, last'.key))
        => /\ last'.err = NoError
           /\ states' = states
           /\ last'.op = "set"
                => /\ last'.warns =
                        <<NotRegisteredUseRegisterMessage(last'.key)>>
                   /\ getER(ThisER', last'.key).ret = JsFalse
           /\ last'.op = "get"
                => /\ last'.warns = <<NotRegisteredMessage(last'.key)>>
                   /\ last'.ret = JsFalse ]_vars

====
